---- MODULE Spec2Model ----
(***************************************************************************)
(* The chunking layer of rag-chunking-challenge: FixedChunker,             *)
(* SentenceChunker and SemanticChunker, one chunker object per behaviour,  *)
(* called any number of times.  Strings are sequences of one-character     *)
(* strings, so that str.split() and " ".join() are computed, not assumed.  *)
(* Similarities are in thousandths (900 is 0.9).                           *)
(***************************************************************************)
EXTENDS Integers, Sequences, FiniteSets, TLC

\* ---------------------------------------------------------------- bounds
MaxTextLen == 7
MaxSentences == 4
MaxChunkSize == 3
MaxNegChunkSize == 1
MaxOverlap == 4
MaxNegOverlap == 2

\* ---------------------------------------------------------------- inputs
Chars == {"a", " "}

BoundedSeq(S, n) == UNION {[1..k -> S] : k \in 0..n}

Texts == BoundedSeq(Chars, MaxTextLen)

\* what nltk.sent_tokenize can return: sentences that each hold at least one word
SentencePool == { <<"a", ".">>, <<"a", " ", "a", ".">>, <<"a", " ", "a", " ", "a", ".">> }

SentenceLists == BoundedSeq(SentencePool, MaxSentences)

\* cosine similarities the embedding model can produce for adjacent sentences
Sims == {300, 600, 900}

Thresholds == {450, 600}

ChunkSizes == (0 - MaxNegChunkSize)..MaxChunkSize

Overlaps == (0 - MaxNegOverlap)..MaxOverlap

Kinds == {"fixed", "sentence", "semantic"}

\* ---------------------------------------------------------------- Python built-ins
Max(a, b) == IF a >= b THEN a ELSE b

Min(a, b) == IF a <= b THEN a ELSE b

RECURSIVE SplitOnSpaceFrom(_, _, _, _)
SplitOnSpaceFrom(s, k, cur, acc) ==
    IF k > Len(s) THEN Append(acc, cur)
    ELSE IF s[k] = " " THEN SplitOnSpaceFrom(s, k + 1, <<>>, Append(acc, cur))
         ELSE SplitOnSpaceFrom(s, k + 1, Append(cur, s[k]), acc)

\* the slip str.split(" "): every single space separates, empty strings are kept
SplitOnSpace(s) == SplitOnSpaceFrom(s, 1, <<>>, <<>>)

RECURSIVE SplitFrom(_, _, _, _)
SplitFrom(s, k, cur, acc) ==
    IF k > Len(s)
    THEN IF cur = <<>> THEN acc ELSE Append(acc, cur)
    ELSE IF s[k] = " "
         THEN SplitFrom(s, k + 1, <<>>, IF cur = <<>> THEN acc ELSE Append(acc, cur))
         ELSE SplitFrom(s, k + 1, Append(cur, s[k]), acc)

\* str.split(): the maximal runs of non-whitespace characters
Split(s) == SplitFrom(s, 1, <<>>, <<>>)

RECURSIVE Join(_)
\* " ".join(parts)
Join(parts) ==
    IF parts = <<>> THEN <<>>
    ELSE IF Len(parts) = 1 THEN parts[1]
    ELSE parts[1] \o <<" ">> \o Join(Tail(parts))

\* the slip seq[lo:hi + 1]: the upper bound taken as inclusive
PySliceInclusive(seq, lo, hi) ==
    LET n == Len(seq)
        clip(x) == IF x < 0 THEN Max(x + n, 0) ELSE Min(x, n)
        a == clip(lo)
        b == clip(hi + 1)
    IN  IF b > a THEN SubSeq(seq, a + 1, b) ELSE <<>>

\* seq[lo:hi] with 0-based bounds, a negative bound counting from the end
PySlice(seq, lo, hi) ==
    LET n == Len(seq)
        clip(x) == IF x < 0 THEN Max(x + n, 0) ELSE Min(x, n)
        a == clip(lo)
        b == clip(hi)
    IN  IF b > a THEN SubSeq(seq, a + 1, b) ELSE <<>>

\* ---------------------------------------------------------------- state
VARIABLES
    kind,                   \* class of the chunker object
    chunk_size,             \* BaseChunker.chunk_size
    overlap,                \* BaseChunker.overlap
    similarity_threshold,   \* SemanticChunker.similarity_threshold
    pc,                     \* position of the current chunk() call
    text,                   \* FixedChunker.chunk: the argument
    words,                  \* FixedChunker.chunk: text.split()
    sentences,              \* sent_tokenize(text)
    sims,                   \* sims[j]: cosine similarity of sentences j-1 and j (0-based j)
    i,                      \* loop cursor
    chunks,                 \* the list being built / returned
    overlap_cap,            \* SentenceChunker.chunk local
    chunk_index,            \* SentenceChunker.chunk local
    current_chunk,          \* SemanticChunker.chunk local
    similarities_in_chunk,  \* SemanticChunker.chunk local
    chunk_start_idx,        \* SemanticChunker.chunk local
    word_count,             \* SemanticChunker.chunk local
    raised,                 \* exception that ended the call, "none" if none
    remembered,             \* caller: an earlier call's input and result, kept for comparison
    chosen_strategy,        \* seed_embeddings local, "none" when the chunker is used directly
    db_objects              \* seed_embeddings local: the records built for one document

vars == <<kind, chunk_size, overlap, similarity_threshold, pc, text, words, sentences, sims, i,
          chunks, overlap_cap, chunk_index, current_chunk, similarities_in_chunk,
          chunk_start_idx, word_count, raised, remembered, chosen_strategy, db_objects>>

config == <<kind, chunk_size, overlap, similarity_threshold>>

semanticLocals == <<current_chunk, similarities_in_chunk, chunk_start_idx, word_count>>

sentenceLocals == <<overlap_cap, chunk_index>>

callerState == <<remembered, chosen_strategy, db_objects>>

NothingRemembered == [set |-> FALSE, others |-> FALSE, input |-> <<>>, chunks |-> <<>>]

\* what every chunk() call starts from, whoever constructed the chunker
IdleCall ==
    /\ pc = "idle"
    /\ text = <<>>
    /\ words = <<>>
    /\ sentences = <<>>
    /\ sims = <<>>
    /\ i = 0
    /\ chunks = <<>>
    /\ overlap_cap = 0
    /\ chunk_index = 0
    /\ current_chunk = <<>>
    /\ similarities_in_chunk = <<>>
    /\ chunk_start_idx = 0
    /\ word_count = 0
    /\ raised = "none"
    /\ remembered = NothingRemembered
    /\ db_objects = <<>>

\* BaseChunker.__init__ / SemanticChunker.__init__: the fields are stored as given
Init ==
    /\ kind \in Kinds
    /\ chunk_size \in ChunkSizes
    /\ overlap \in (IF kind = "semantic" THEN {0} ELSE Overlaps)
    /\ similarity_threshold \in (IF kind = "semantic" THEN Thresholds ELSE {750})
    /\ pc = "idle"
    /\ text = <<>>
    /\ words = <<>>
    /\ sentences = <<>>
    /\ sims = <<>>
    /\ i = 0
    /\ chunks = <<>>
    /\ overlap_cap = 0
    /\ chunk_index = 0
    /\ current_chunk = <<>>
    /\ similarities_in_chunk = <<>>
    /\ chunk_start_idx = 0
    /\ word_count = 0
    /\ raised = "none"
    /\ remembered = NothingRemembered
    /\ chosen_strategy = "none"
    /\ db_objects = <<>>

Callable == pc = "idle"

\* ---------------------------------------------------------------- FixedChunker
total_words == Len(words)

\* the slip of advancing by chunk_size whatever the overlap
StepIgnoringOverlap == chunk_size

\* fixed.py line 17
step == chunk_size - overlap

\* fixed.py lines 15-20: split, compute the step, build range(0, total_words, step)
FixedChunk(t) ==
    /\ Callable
    /\ kind = "fixed"
    /\ text' = t
    /\ words' = Split(t)
    /\ chunks' = <<>>
    /\ i' = 0
    /\ IF step = 0
       THEN pc' = "raised" /\ raised' = "ValueError"
       ELSE pc' = "fixed_loop" /\ raised' = "none"
    /\ UNCHANGED <<config, callerState, sentences, sims, sentenceLocals, semanticLocals>>

\* range(0, total_words, step) still yields i
FixedHasNext == IF step > 0 THEN i < total_words ELSE i > total_words

\* fixed.py lines 20-32: one iteration of the for loop
FixedIter ==
    /\ pc = "fixed_loop"
    /\ FixedHasNext
    /\ LET chunk_words == PySlice(words, i, i + chunk_size)
       IN  chunks' = Append(chunks,
                [id |-> Len(chunks),
                 text |-> Join(chunk_words),
                 meta |-> [start_word |-> i,
                           end_word |-> i + Len(chunk_words),
                           total_words |-> total_words]])
    /\ i' = i + step
    /\ UNCHANGED <<config, callerState, pc, text, words, sentences, sims, sentenceLocals, semanticLocals, raised>>

\* fixed.py line 34
FixedReturn ==
    /\ pc = "fixed_loop"
    /\ ~FixedHasNext
    /\ pc' = "returned"
    /\ UNCHANGED <<config, callerState, text, words, sentences, sims, i, chunks, sentenceLocals, semanticLocals, raised>>

\* ---------------------------------------------------------------- SentenceChunker
total_sentences == Len(sentences)

\* len(sentences[j].split()), j 0-based
sentence_words(j) == Len(Split(sentences[j + 1]))

\* the slip of closing the chunk already when the sentence would fill the budget exactly
PackStopsAtBudget(wc, sw, cnt) == wc + sw >= chunk_size /\ cnt > 0

\* the slip of testing the budget against the words already collected only
PackStopsLate(wc, sw, cnt) == wc > chunk_size /\ cnt > 0

\* sentence.py line 57: the sentence of sw words does not fit and the chunk has content
PackStops(wc, sw, cnt) == wc + sw > chunk_size /\ cnt > 0

RECURSIVE PackEnd(_, _, _)
\* sentence.py lines 54-61: the inner while loop started at cursor j with wc words
\* and cnt sentences collected; the cursor it stops at
PackEnd(j, wc, cnt) ==
    IF j < total_sentences /\ ~PackStops(wc, sentence_words(j), cnt)
    THEN PackEnd(j + 1, wc + sentence_words(j), cnt + 1)
    ELSE j

\* the slip of stepping back one sentence more than overlap_cap
RewindOneMore(start_idx, j, cap) == Max(start_idx + 1, j - cap - 1)

\* the slip of stepping back one sentence less than overlap_cap
RewindOneLess(start_idx, j, cap) == Max(start_idx + 1, j - cap + 1)

\* the slip of allowing the cursor to fall back onto start_idx
RewindOntoStart(start_idx, j, cap) == Max(start_idx, j - cap)

\* sentence.py line 87: the cursor the next chunk resumes at
Rewind(start_idx, j, cap) == Max(start_idx + 1, j - cap)

\* sentence.py line 42: the overlap clamped to [0, total_sentences - 1]
OverlapCap(ov, total) == Max(0, Min(ov, total - 1))

\* the slip of storing the clamped overlap back into self.overlap
SentenceChunkClamping(sents) ==
    /\ Callable
    /\ kind = "sentence"
    /\ sentences' = sents
    /\ chunks' = <<>>
    /\ i' = 0
    /\ chunk_index' = 0
    /\ raised' = "none"
    /\ IF Len(sents) = 0
       THEN pc' = "returned" /\ UNCHANGED <<overlap_cap, overlap>>
       ELSE /\ pc' = "sentence_loop"
            /\ overlap_cap' = OverlapCap(overlap, Len(sents))
            /\ overlap' = OverlapCap(overlap, Len(sents))
    /\ UNCHANGED <<kind, chunk_size, similarity_threshold, callerState, text, words, sims,
                   semanticLocals>>

\* sentence.py lines 36-46: tokenize, return [] for no sentences, clamp the overlap
SentenceChunk(sents) ==
    /\ Callable
    /\ kind = "sentence"
    /\ sentences' = sents
    /\ chunks' = <<>>
    /\ i' = 0
    /\ chunk_index' = 0
    /\ raised' = "none"
    /\ IF Len(sents) = 0
       THEN pc' = "returned" /\ UNCHANGED overlap_cap
       ELSE /\ pc' = "sentence_loop"
            /\ overlap_cap' = OverlapCap(overlap, Len(sents))
    /\ UNCHANGED <<config, callerState, text, words, sims, semanticLocals>>

\* sentence.py lines 48-87: one iteration of the outer while loop
SentenceIter ==
    /\ pc = "sentence_loop"
    /\ i < total_sentences
    /\ LET start_idx == i
           packed == PackEnd(i, 0, 0)
           \* lines 63-66: force-add when the inner loop collected nothing
           j == IF packed = start_idx /\ packed < total_sentences THEN packed + 1 ELSE packed
       IN  IF j = start_idx
           THEN \* lines 68-69: nothing collected, leave the loop
                /\ pc' = "returned"
                /\ UNCHANGED <<i, chunks, chunk_index>>
           ELSE /\ chunks' = Append(chunks,
                        [id |-> chunk_index,
                         text |-> Join(SubSeq(sentences, start_idx + 1, j)),
                         meta |-> [start_sentence |-> start_idx,
                                   end_sentence |-> j - 1,
                                   total_sentences |-> total_sentences]])
                /\ chunk_index' = chunk_index + 1
                /\ i' = IF overlap_cap > 0 THEN Rewind(start_idx, j, overlap_cap) ELSE j
                /\ UNCHANGED pc
    /\ UNCHANGED <<config, callerState, text, words, sentences, sims, overlap_cap, semanticLocals, raised>>

\* sentence.py line 89
SentenceReturn ==
    /\ pc = "sentence_loop"
    /\ ~(i < total_sentences)
    /\ pc' = "returned"
    /\ UNCHANGED <<config, callerState, text, words, sentences, sims, i, chunks, sentenceLocals,
                   semanticLocals, raised>>

\* ---------------------------------------------------------------- SemanticChunker
RECURSIVE Sum(_)
Sum(seq) == IF seq = <<>> THEN 0 ELSE seq[1] + Sum(Tail(seq))

\* round(float(np.mean(similarities)), 3) in thousandths, a tie going to the even neighbour
RoundedMean(seq) ==
    LET n == Len(seq)
        q == Sum(seq) \div n
        r == Sum(seq) % n
    IN  IF 2 * r < n THEN q
        ELSE IF 2 * r > n THEN q + 1
        ELSE IF q % 2 = 0 THEN q ELSE q + 1

\* the slip of defaulting avg_similarity to 0.0 when nothing was recorded
_finalize_chunk_default_zero(cs, cur, start_idx, end_idx, similarities, total) ==
    Append(cs,
        [id |-> Len(cs),
         text |-> Join(cur),
         meta |-> [start_sentence |-> start_idx,
                   end_sentence |-> end_idx,
                   avg_similarity |-> IF similarities = <<>> THEN 0
                                      ELSE RoundedMean(similarities),
                   total_sentences |-> total]])

\* semantic.py lines 112-139: the list with the finalized chunk appended
_finalize_chunk(cs, cur, start_idx, end_idx, similarities, total) ==
    Append(cs,
        [id |-> Len(cs),
         text |-> Join(cur),
         meta |-> [start_sentence |-> start_idx,
                   end_sentence |-> end_idx,
                   avg_similarity |-> IF similarities = <<>> THEN 1000
                                      ELSE RoundedMean(similarities),
                   total_sentences |-> total]])

\* semantic.py line 59: adding a sentence of sw words to the chunk cur of wc words
\* would exceed the word budget
BudgetCut(cur, wc, sw) == cur # <<>> /\ wc + sw > chunk_size

\* the slip of cutting also at a similarity equal to the threshold
SemanticBreakAtThreshold(sim) == sim <= similarity_threshold

\* semantic.py line 79: the similarity marks a semantic break
SemanticBreak(sim) == sim < similarity_threshold

\* semantic.py lines 41-53: tokenize, return [] for no sentences, embed, set up the locals
SemanticChunk(sents, sm) ==
    /\ Callable
    /\ kind = "semantic"
    /\ sentences' = sents
    /\ chunks' = <<>>
    /\ i' = 0
    /\ current_chunk' = <<>>
    /\ similarities_in_chunk' = <<>>
    /\ chunk_start_idx' = 0
    /\ word_count' = 0
    /\ raised' = "none"
    /\ IF Len(sents) = 0
       THEN pc' = "returned" /\ sims' = <<>>
       ELSE pc' = "semantic_loop" /\ sims' = sm
    /\ UNCHANGED <<config, callerState, text, words, sentenceLocals>>

\* the slip of catching the failure of encode and returning what is there
SemanticEncodeCaught(sents) ==
    /\ Callable
    /\ kind = "semantic"
    /\ Len(sents) > 0
    /\ sentences' = sents
    /\ chunks' = _finalize_chunk(<<>>, sents, 0, Len(sents) - 1, <<>>, Len(sents))
    /\ pc' = "returned"
    /\ raised' = "none"
    /\ UNCHANGED <<config, callerState, text, words, sims, i, sentenceLocals, semanticLocals>>

\* semantic.py line 46: self.model.encode raises, nothing catches it
SemanticEncodeFails(sents) ==
    /\ Callable
    /\ kind = "semantic"
    /\ Len(sents) > 0
    /\ sentences' = sents
    /\ chunks' = <<>>
    /\ pc' = "raised"
    /\ raised' = "EmbeddingError"
    /\ UNCHANGED <<config, callerState, text, words, sims, i, sentenceLocals, semanticLocals>>

\* semantic.py lines 55-97: one iteration of the for loop
SemanticIter ==
    /\ pc = "semantic_loop"
    /\ i < total_sentences
    /\ LET sw == sentence_words(i)
           \* lines 59-70: the word budget cut
           budget == BudgetCut(current_chunk, word_count, sw)
           chunks1 == IF budget
                      THEN _finalize_chunk(chunks, current_chunk, chunk_start_idx, i - 1,
                                           similarities_in_chunk, total_sentences)
                      ELSE chunks
           cur1 == IF budget THEN <<>> ELSE current_chunk
           sims1 == IF budget THEN <<>> ELSE similarities_in_chunk
           wc1 == IF budget THEN 0 ELSE word_count
           start1 == IF budget THEN i ELSE chunk_start_idx
           \* lines 72-93: the similarity cut
           compared == cur1 # <<>> /\ i > 0
           sim == sims[i]
           break == compared /\ SemanticBreak(sim)
           chunks2 == IF break
                      THEN _finalize_chunk(chunks1, cur1, start1, i - 1, sims1, total_sentences)
                      ELSE chunks1
           cur2 == IF break THEN <<>> ELSE cur1
           sims2 == IF break THEN <<>> ELSE IF compared THEN Append(sims1, sim) ELSE sims1
           wc2 == IF break THEN 0 ELSE wc1
           start2 == IF break THEN i ELSE start1
       IN  /\ chunks' = chunks2
           /\ similarities_in_chunk' = sims2
           /\ chunk_start_idx' = start2
           \* lines 95-97
           /\ current_chunk' = Append(cur2, sentences[i + 1])
           /\ word_count' = wc2 + sw
    /\ i' = i + 1
    /\ UNCHANGED <<config, callerState, pc, text, words, sentences, sims, sentenceLocals, raised>>

\* semantic.py lines 99-110: finalize the last chunk and return
SemanticReturn ==
    /\ pc = "semantic_loop"
    /\ ~(i < total_sentences)
    /\ chunks' = IF current_chunk # <<>>
                 THEN _finalize_chunk(chunks, current_chunk, chunk_start_idx,
                                      total_sentences - 1, similarities_in_chunk,
                                      total_sentences)
                 ELSE chunks
    /\ pc' = "returned"
    /\ UNCHANGED <<config, callerState, text, words, sentences, sims, i, sentenceLocals, semanticLocals,
                   raised>>

\* ---------------------------------------------------------------- the caller
\* seed_embeddings.py lines 69-73: the caller takes the list (or the exception) and
\* the call's locals are gone; the chunker object keeps only its configuration
\* the input of the current call: the text, or the sentences and their similarities
CallInput == <<text, sentences, sims>>

Release ==
    /\ pc \in {"returned", "raised", "persisted"}
    /\ pc' = "idle"
    /\ text' = <<>>
    /\ words' = <<>>
    /\ sentences' = <<>>
    /\ sims' = <<>>
    /\ i' = 0
    /\ chunks' = <<>>
    /\ overlap_cap' = 0
    /\ chunk_index' = 0
    /\ current_chunk' = <<>>
    /\ similarities_in_chunk' = <<>>
    /\ chunk_start_idx' = 0
    /\ word_count' = 0
    /\ raised' = "none"
    /\ db_objects' = <<>>
    /\ remembered' = IF remembered.set /\ CallInput # remembered.input
                      THEN [remembered EXCEPT !.others = TRUE]
                      ELSE remembered
    /\ UNCHANGED <<config, chosen_strategy>>

\* inputs whose result a caller keeps to compare a later call against
ProbeInputs ==
    { << <<"a", " ", "a", " ", "a">>, <<>>, <<>> >>,
      << <<>>, << <<"a", ".">>, <<"a", ".">>, <<"a", " ", "a", ".">> >>, <<>> >>,
      << <<>>, << <<"a", ".">>, <<"a", ".">>, <<"a", " ", "a", ".">> >>, <<900, 600>> >> }

\* a caller keeps the list a call returned
Remember ==
    /\ pc = "returned"
    /\ ~remembered.set
    /\ CallInput \in ProbeInputs
    /\ remembered' = [set |-> TRUE, others |-> FALSE, input |-> CallInput, chunks |-> chunks]
    /\ UNCHANGED <<config, pc, text, words, sentences, sims, i, chunks, sentenceLocals,
                   semanticLocals, raised, chosen_strategy, db_objects>>

SimLists(n) == IF n <= 1 THEN {<<>>} ELSE [1..(n - 1) -> Sims]

Next ==
    \/ Callable /\ kind = "fixed" /\ \E t \in Texts : FixedChunk(t)
    \/ FixedIter
    \/ FixedReturn
    \/ Callable /\ kind = "sentence" /\ \E sents \in SentenceLists : SentenceChunk(sents)
    \/ SentenceIter
    \/ SentenceReturn
    \/ Callable /\ kind = "semantic" /\ \E sents \in SentenceLists :
          \E sm \in SimLists(Len(sents)) : SemanticChunk(sents, sm)
    \/ Callable /\ kind = "semantic" /\ \E sents \in SentenceLists : SemanticEncodeFails(sents)
    \/ SemanticIter
    \/ SemanticReturn
    \/ Release

Spec == Init /\ [][Next]_vars

\* the same chunker under a caller that keeps an earlier result
PureSpec == Init /\ [][Next \/ Remember]_vars
\* ---------------------------------------------------------------- seed_embeddings
SeedChunkSize == 500

SeedSentenceOverlap == 2

SeedSimilarityThreshold == 450

\* os.getenv("STRATEGY", "FIXED").upper(): the member names and any other string
StrategyEnvs == {"FIXED", "SENTENCE", "SEMANTIC", "SLIDING_WINDOW", "OTHER"}

\* document_chunk.py lines 14-18 and seed_embeddings.py line 55:
\* ChunkStrategy.__members__.get(strategy_env, ChunkStrategy.FIXED)
ChosenStrategy(env) ==
    CASE env = "FIXED" -> "fixed"
      [] env = "SENTENCE" -> "sentence"
      [] env = "SEMANTIC" -> "semantic"
      [] env = "SLIDING_WINDOW" -> "sliding_window"
      [] OTHER -> "fixed"

\* seed_embeddings.py lines 54-66: the strategy is read and the chunker constructed
SeedInit ==
    /\ \E env \in StrategyEnvs : chosen_strategy = ChosenStrategy(env)
    /\ IF chosen_strategy = "sentence"
       THEN /\ kind = "sentence"
            /\ chunk_size = SeedChunkSize
            /\ overlap = SeedSentenceOverlap
            /\ similarity_threshold = 750
       ELSE IF chosen_strategy = "semantic"
       THEN /\ kind = "semantic"
            /\ chunk_size = SeedChunkSize
            /\ overlap = 0
            /\ similarity_threshold = SeedSimilarityThreshold
       ELSE /\ kind = "fixed"
            /\ chunk_size = SeedChunkSize
            /\ overlap = 0
            /\ similarity_threshold = 750
    /\ IdleCall

\* seed_embeddings.py lines 79-92: one record per chunk, tagged with the chosen strategy
Persist ==
    /\ pc = "returned"
    /\ chosen_strategy # "none"
    /\ db_objects' = [k \in 1..Len(chunks) |->
                         [chunk_index |-> k - 1,
                          chunk_text |-> chunks[k].text,
                          strategy |-> chosen_strategy]]
    /\ pc' = "persisted"
    /\ UNCHANGED <<config, text, words, sentences, sims, i, chunks, sentenceLocals,
                   semanticLocals, raised, remembered, chosen_strategy>>

\* seed_embeddings run over documents of any content
SeedSpec == SeedInit /\ [][Next \/ Persist]_vars

\* ---------------------------------------------------------------- reading a result
total_units == IF kind = "fixed" THEN total_words ELSE total_sentences

ChunkStart(c) == IF kind = "fixed" THEN c.meta.start_word ELSE c.meta.start_sentence

ChunkEnd(c) == IF kind = "fixed" THEN c.meta.end_word ELSE c.meta.end_sentence

\* the unit indices a chunk's metadata names: [start_word, end_word) or
\* [start_sentence, end_sentence]
ChunkRange(c) ==
    IF kind = "fixed" THEN c.meta.start_word..(c.meta.end_word - 1)
    ELSE c.meta.start_sentence..c.meta.end_sentence

\* the number of words in a chunk's text
ChunkWords(c) == Len(Split(c.text))

Covered == \A x \in 0..(total_units - 1) : \E k \in 1..Len(chunks) : x \in ChunkRange(chunks[k])

Ordered ==
    /\ \A k \in 1..Len(chunks) : chunks[k].id = k - 1
    /\ \A k \in 1..(Len(chunks) - 1) :
          /\ ChunkStart(chunks[k + 1]) >= ChunkStart(chunks[k])
          /\ ChunkEnd(chunks[k + 1]) >= ChunkEnd(chunks[k])

ValidFixedConfig == chunk_size >= 1 /\ 0 <= overlap /\ overlap < chunk_size

\* ---------------------------------------------------------------- properties
\* C1: for every chunker and every non-empty input, the ranges recorded in the
\* returned chunks together contain every index in [0, total_units).
C1_Coverage == (pc = "returned" /\ total_units > 0) => Covered

\* C1 on the configurations the fixed chunker is documented for: coverage holds there.
CoverageWhenConfigured ==
    (pc = "returned" /\ total_units > 0 /\ (kind = "fixed" => ValidFixedConfig)) => Covered

\* C2: in every list a chunker builds, the k-th chunk has id k, and start and end
\* indices never decrease from one chunk to the next.
C2_Ordering == Ordered

\* C2 with a positive chunk_size: the ordering holds there.
OrderingWhenConfigured == chunk_size >= 1 => Ordered

\* C3: with chunk_size <= 0 a chunk() call ends in InvalidConfiguration before any
\* text is processed: it never enters a loop, never returns, never raises anything else.
C3_InvalidChunkSize ==
    chunk_size <= 0 => (pc = "idle" \/ (pc = "raised" /\ raised = "InvalidConfiguration"))

\* C4: a FixedChunker with overlap >= chunk_size fails every chunk() call with
\* InvalidConfiguration: no loop, no returned list, no other error.
C4_FixedStepGuard ==
    (kind = "fixed" /\ overlap >= chunk_size)
        => (pc = "idle" \/ (pc = "raised" /\ raised = "InvalidConfiguration"))
NoUnitsGiven ==
    IF kind = "fixed" THEN \A k \in 1..Len(text) : text[k] = " " ELSE sentences = <<>>

\* C5: with chunk_size >= 1 (and 0 <= overlap < chunk_size for the fixed chunker) a
\* text without words or sentences gives an empty list and no error.
C5_EmptyInput ==
    (pc # "idle" /\ NoUnitsGiven /\ chunk_size >= 1 /\ (kind = "fixed" => ValidFixedConfig))
        => (chunks = <<>> /\ pc # "raised" /\ raised = "none")

\* a whitespace-only text has been chunked by a well-configured fixed chunker
C5_Witness ==
    /\ pc = "returned" /\ kind = "fixed" /\ ValidFixedConfig
    /\ Len(text) >= 2 /\ words = <<>> /\ chunks = <<>>

CeilDiv(a, b) == (a + b - 1) \div b

\* C6: a well-configured fixed chunker returns ceil(n / step) chunks for n >= 1 words,
\* chunk k with start_word = k * step, end_word = min(start_word + chunk_size, n) and
\* total_words = n, the last one ending at n.
C6_FixedWindowing ==
    (pc = "returned" /\ kind = "fixed" /\ ValidFixedConfig /\ total_words >= 1)
        => /\ Len(chunks) = CeilDiv(total_words, chunk_size - overlap)
           /\ \A k \in 1..Len(chunks) :
                 /\ chunks[k].meta.start_word = (k - 1) * (chunk_size - overlap)
                 /\ chunks[k].meta.end_word =
                        Min(chunks[k].meta.start_word + chunk_size, total_words)
                 /\ chunks[k].meta.total_words = total_words
           /\ chunks[Len(chunks)].meta.end_word = total_words

\* overlapping windows, at least three of them, the last one clipped
C6_Witness ==
    /\ pc = "returned" /\ kind = "fixed" /\ ValidFixedConfig /\ overlap >= 1
    /\ Len(chunks) >= 3
    /\ ChunkWords(chunks[Len(chunks)]) < chunk_size

\* C7 as stated: a well-configured fixed chunker puts at most chunk_size words in a
\* chunk and exactly chunk_size in every chunk but the last.
C7_OnlyLastShorter ==
    (pc = "returned" /\ kind = "fixed" /\ ValidFixedConfig)
        => /\ \A k \in 1..Len(chunks) : ChunkWords(chunks[k]) <= chunk_size
           /\ \A k \in 1..(Len(chunks) - 1) : ChunkWords(chunks[k]) = chunk_size

\* C7 amended: a well-configured fixed chunker puts at most chunk_size words in a chunk
\* and exactly chunk_size in every chunk that ends before the end of the text.
C7_FixedChunkSizes ==
    (kind = "fixed" /\ ValidFixedConfig)
        => \A k \in 1..Len(chunks) :
              /\ ChunkWords(chunks[k]) <= chunk_size
              /\ chunks[k].meta.end_word < total_words => ChunkWords(chunks[k]) = chunk_size

\* a full chunk, then a clipped chunk that is not the last one
C7_Witness ==
    /\ pc = "returned" /\ kind = "fixed" /\ ValidFixedConfig
    /\ \E k \in 2..(Len(chunks) - 1) :
          /\ ChunkWords(chunks[k]) < chunk_size
          /\ ChunkWords(chunks[1]) = chunk_size

SharedWithPrevious(k) == ChunkRange(chunks[k]) \cap ChunkRange(chunks[k + 1])

\* C8: whatever the overlap, a chunk of the sentence chunker shares at most
\* max(overlap, 0) sentences with the chunk before it, and they are the end of that chunk.
C8_SentenceOverlapBound ==
    kind = "sentence"
        => \A k \in 1..(Len(chunks) - 1) :
              /\ Cardinality(SharedWithPrevious(k)) <= Max(overlap, 0)
              /\ \A x \in SharedWithPrevious(k) :
                    x..chunks[k].meta.end_sentence \subseteq SharedWithPrevious(k)

\* a chunk that repeats exactly `overlap` sentences, two of them, of a longer chunk
C8_Witness ==
    /\ pc = "returned" /\ kind = "sentence" /\ overlap = 2
    /\ \E k \in 1..(Len(chunks) - 1) :
          /\ Cardinality(SharedWithPrevious(k)) = 2
          /\ Cardinality(ChunkRange(chunks[k])) >= 3

\* the sentence chunker's loop ends under a scheduler that keeps running it
FairSpec == Spec /\ WF_vars(SentenceIter) /\ WF_vars(SentenceReturn)

StartsIncrease ==
    \A k \in 1..(Len(chunks) - 1) :
        chunks[k + 1].meta.start_sentence > chunks[k].meta.start_sentence

\* C9: the sentence chunker returns for every input and every overlap: each chunk starts
\* strictly after the one before it, so there are at most total_sentences chunks.
C9_SentenceTerminates ==
    /\ [](kind = "sentence" => (StartsIncrease /\ Len(chunks) <= total_sentences))
    /\ ((pc = "sentence_loop") ~> (pc = "returned"))

\* an overlap of at least total_sentences, and as many chunks as sentences
C9_Witness ==
    /\ pc = "returned" /\ kind = "sentence"
    /\ total_sentences >= 3 /\ overlap >= total_sentences
    /\ Len(chunks) = total_sentences

\* C10: with chunk_size >= 1 a chunk of the sentence or semantic chunker that holds more
\* than chunk_size words is one whole sentence, and every sentence longer than chunk_size
\* is returned as a chunk of its own.
C10_ForcedInclusion ==
    (kind \in {"sentence", "semantic"} /\ chunk_size >= 1)
        => /\ \A k \in 1..Len(chunks) :
                 ChunkWords(chunks[k]) > chunk_size
                    => /\ chunks[k].meta.start_sentence = chunks[k].meta.end_sentence
                       /\ chunks[k].text = sentences[chunks[k].meta.start_sentence + 1]
           /\ pc = "returned"
                 => \A j \in 0..(total_sentences - 1) :
                       sentence_words(j) > chunk_size
                          => \E k \in 1..Len(chunks) :
                                /\ chunks[k].meta.start_sentence = j
                                /\ chunks[k].meta.end_sentence = j
                                /\ chunks[k].text = sentences[j + 1]

\* a three-word sentence against a budget of two, between chunks of other sentences
C10_Witness ==
    /\ pc = "returned" /\ kind \in {"sentence", "semantic"} /\ chunk_size = 2
    /\ \E k \in 2..(Len(chunks) - 1) :
          /\ ChunkWords(chunks[k]) = 3
          /\ chunks[k].meta.start_sentence = chunks[k].meta.end_sentence
          /\ Cardinality(ChunkRange(chunks[1])) = 2
RECURSIVE WordsOf(_, _)
\* the words of sentences a..b (0-based, inclusive)
WordsOf(a, b) == IF a > b THEN 0 ELSE sentence_words(a) + WordsOf(a + 1, b)

IsChunkStart(j) == \E k \in 1..Len(chunks) : chunks[k].meta.start_sentence = j

\* the words the chunk being built holds when sentence j is the candidate: those of
\* the sentences from the start of the chunk that holds j - 1 up to j - 1
WordsBefore(j) ==
    LET k == CHOOSE n \in 1..Len(chunks) : (j - 1) \in ChunkRange(chunks[n])
    IN  WordsOf(chunks[k].meta.start_sentence, j - 1)

\* C11: in a list the semantic chunker returns, sentence j > 0 starts a chunk exactly
\* when the chunk being built plus sentence j exceeds chunk_size or the similarity of
\* sentences j-1 and j is strictly below the threshold.
C11_SemanticCutRule ==
    (pc = "returned" /\ kind = "semantic")
        => \A j \in 1..(total_sentences - 1) :
              IsChunkStart(j) <=> \/ WordsBefore(j) + sentence_words(j) > chunk_size
                                  \/ sims[j] < similarity_threshold

\* A, B, C with similarities 0.9 and 0.3 against a threshold between them and a budget
\* that holds A and B: the chunks {A, B} and {C}
C11_Witness ==
    /\ pc = "returned" /\ kind = "semantic"
    /\ total_sentences = 3 /\ sims = <<900, 300>> /\ similarity_threshold = 450
    /\ WordsOf(0, 1) <= chunk_size
    /\ Len(chunks) = 2
    /\ ChunkRange(chunks[1]) = 0..1 /\ ChunkRange(chunks[2]) = 2..2

\* a similarity equal to the threshold inside a chunk
C11_NoCutAtThreshold ==
    /\ pc = "returned" /\ kind = "semantic"
    /\ \E j \in 1..(total_sentences - 1) : sims[j] = similarity_threshold /\ ~IsChunkStart(j)
\* the source units a chunk's metadata names: words[start_word:end_word] or
\* sentences[start_sentence..end_sentence]
NamedUnits(c) ==
    IF kind = "fixed" THEN SubSeq(words, c.meta.start_word + 1, c.meta.end_word)
    ELSE SubSeq(sentences, c.meta.start_sentence + 1, c.meta.end_sentence + 1)

TextMatchesMeta ==
    \A k \in 1..Len(chunks) :
        /\ chunks[k].text # <<>>
        /\ chunks[k].text = Join(NamedUnits(chunks[k]))
        /\ Len(NamedUnits(chunks[k])) = Cardinality(ChunkRange(chunks[k]))
        /\ kind = "fixed" => ChunkWords(chunks[k]) = Cardinality(ChunkRange(chunks[k]))

\* C12: every chunk of every chunker has a non-empty text, the single-space join of
\* exactly the units its metadata range names, as many units as the range is long.
C12_TextMatchesMeta == TextMatchesMeta

\* C12 with a positive chunk_size: text and metadata agree there.
TextMatchesMetaWhenConfigured == chunk_size >= 1 => TextMatchesMeta
\* the similarities of the adjacent pairs inside sentences s..e: sim(j-1, j), s < j <= e
PairSims(s, e) == SubSeq(sims, s + 1, e)

\* avg is the mean of seq to the nearest thousandth
IsMeanOf(avg, seq) ==
    LET d == avg * Len(seq) - Sum(seq)
    IN  2 * (IF d < 0 THEN 0 - d ELSE d) <= Len(seq)

\* C13: a chunk of the semantic chunker over sentences [s, e] records exactly the e - s
\* similarities sim(j-1, j), s < j <= e, all at or above the threshold; avg_similarity is
\* their rounded mean, and 1.0 for a one-sentence chunk however it was opened.
C13_AvgSimilarity ==
    kind = "semantic"
        => /\ pc = "semantic_loop" /\ i > 0
                 => similarities_in_chunk = PairSims(chunk_start_idx, i - 1)
           /\ \A k \in 1..Len(chunks) :
                 LET s == chunks[k].meta.start_sentence
                     e == chunks[k].meta.end_sentence
                 IN  /\ Len(PairSims(s, e)) = e - s
                     /\ \A n \in 1..(e - s) : PairSims(s, e)[n] >= similarity_threshold
                     /\ e > s => IsMeanOf(chunks[k].meta.avg_similarity, PairSims(s, e))
                     /\ e = s => chunks[k].meta.avg_similarity = 1000

\* a one-sentence chunk opened by a budget cut, and a chunk averaging unequal similarities
C13_Witness ==
    /\ pc = "returned" /\ kind = "semantic"
    /\ \E k \in 2..Len(chunks) :
          LET s == chunks[k].meta.start_sentence
          IN  /\ chunks[k].meta.end_sentence = s
              /\ sims[s] >= similarity_threshold
              /\ chunks[k].meta.avg_similarity = 1000
    /\ \E k \in 1..Len(chunks) : chunks[k].meta.avg_similarity = 750
\* C14: when the embedding of the sentences fails, the semantic chunker's call ends with
\* that error and no chunk list: a call on a text with sentences either goes on to its
\* loop with nothing emitted or ends raised, and a raised call holds no chunks.
C14_AtomicFailure ==
    /\ [][(pc = "idle" /\ kind = "semantic" /\ pc' # "idle" /\ sentences' # <<>>)
            => /\ chunks' = <<>>
               /\ \/ pc' = "semantic_loop" /\ raised' = "none"
                  \/ pc' = "raised" /\ raised' = "EmbeddingError"]_vars
    /\ []((kind = "semantic" /\ (pc = "raised" \/ raised # "none"))
            => (pc = "raised" /\ raised = "EmbeddingError" /\ chunks = <<>>))

\* the embedding of a text of several sentences has failed
C14_Witness ==
    /\ kind = "semantic" /\ pc = "raised" /\ raised = "EmbeddingError"
    /\ total_sentences >= 2 /\ chunks = <<>>
\* C15: no step of a chunk() call changes chunk_size, overlap or similarity_threshold,
\* and a call on an input an earlier call was given (with the same similarities) returns
\* the list that call returned, whatever was chunked in between.
C15_PureAndDeterministic ==
    /\ [][config' = config]_vars
    /\ []((pc = "returned" /\ remembered.set /\ CallInput = remembered.input)
            => chunks = remembered.chunks)

\* the kept input chunked again after a call on another input, into several chunks
C15_Witness ==
    /\ pc = "returned" /\ remembered.set /\ remembered.others
    /\ CallInput = remembered.input
    /\ chunks = remembered.chunks /\ Len(chunks) >= 2
\* where the chunk after a chunk over sentences [s, e] starts, by the rule of C16
NextStart(s, e) == Max(s + 1, e + 1 - Max(0, Min(overlap, total_sentences - 1)))

\* C16: in the sentence chunker the chunk after a chunk over sentences [s, e] starts at
\* max(s + 1, e + 1 - c), c = max(0, min(overlap, total_sentences - 1)), and there is
\* such a chunk exactly when that index is a sentence.
C16_SentenceRewindRule ==
    kind = "sentence"
        => /\ \A k \in 1..(Len(chunks) - 1) :
                 chunks[k + 1].meta.start_sentence =
                     NextStart(chunks[k].meta.start_sentence, chunks[k].meta.end_sentence)
           /\ (pc = "sentence_loop" /\ chunks # <<>>)
                 => i = NextStart(chunks[Len(chunks)].meta.start_sentence,
                                  chunks[Len(chunks)].meta.end_sentence)
           /\ (pc = "returned" /\ chunks # <<>>)
                 => NextStart(chunks[Len(chunks)].meta.start_sentence,
                              chunks[Len(chunks)].meta.end_sentence) >= total_sentences

\* an overlap beyond the text stepping back as far as total_sentences - 1 allows, next
\* to a step back that stops right after the start of the chunk
C16_Witness ==
    /\ pc = "returned" /\ kind = "sentence" /\ overlap > total_sentences
    /\ \E k \in 1..(Len(chunks) - 1) :
          /\ chunks[k].meta.end_sentence >= chunks[k].meta.start_sentence + 2
          /\ chunks[k + 1].meta.start_sentence = chunks[k].meta.start_sentence + 1

\* a negative overlap: the next chunk starts right after the end of the chunk
C16_NegativeOverlap ==
    /\ pc = "returned" /\ kind = "sentence" /\ overlap < 0
    /\ \E k \in 1..(Len(chunks) - 1) :
          /\ chunks[k].meta.end_sentence > chunks[k].meta.start_sentence
          /\ chunks[k + 1].meta.start_sentence = chunks[k].meta.end_sentence + 1
\* C17: the sentence chunker closes a chunk over sentences [s, e] before sentence e + 1
\* only when the words of s..e plus those of e + 1 exceed chunk_size; a chunk is otherwise
\* closed only at the last sentence.
C17_SentenceGreedyPacking ==
    kind = "sentence"
        => \A k \in 1..Len(chunks) :
              LET s == chunks[k].meta.start_sentence
                  e == chunks[k].meta.end_sentence
              IN  e < total_sentences - 1
                     => WordsOf(s, e) + sentence_words(e + 1) > chunk_size

\* a chunk of two sentences that fills the budget exactly, closed before a third
C17_Witness ==
    /\ pc = "returned" /\ kind = "sentence" /\ chunk_size >= 2
    /\ \E k \in 1..Len(chunks) :
          LET s == chunks[k].meta.start_sentence
              e == chunks[k].meta.end_sentence
          IN  e = s + 1 /\ e < total_sentences - 1 /\ WordsOf(s, e) = chunk_size
\* C18: in the sentence chunker end_sentence strictly increases from chunk to chunk, so
\* one chunk only ends at the last sentence, and sentences that fit in one budget
\* together give one chunk.
C18_SentenceStopsWhenConsumed ==
    kind = "sentence"
        => /\ \A k \in 1..(Len(chunks) - 1) :
                 chunks[k + 1].meta.end_sentence > chunks[k].meta.end_sentence
           /\ (pc = "returned" /\ total_sentences > 0)
                 => /\ Cardinality({k \in 1..Len(chunks) :
                           chunks[k].meta.end_sentence = total_sentences - 1}) = 1
                    /\ WordsOf(0, total_sentences - 1) <= chunk_size => Len(chunks) = 1

\* the chunker a label other than sliding_window is served by in seed_embeddings
ServedBy(label) ==
    CASE label = "fixed" -> <<"fixed", SeedChunkSize, 0>>
      [] label = "sentence" -> <<"sentence", SeedChunkSize, SeedSentenceOverlap>>
      [] label = "semantic" -> <<"semantic", SeedChunkSize, 0>>

\* C19: every record seed_embeddings builds is tagged with the strategy whose chunker
\* produced it: fixed, sentence and semantic by their chunkers, sliding_window by a
\* chunker with an overlap that serves no other label.
C19_LabelMatchesChunker ==
    \A k \in 1..Len(db_objects) :
        LET label == db_objects[k].strategy
        IN  /\ label \in {"fixed", "sentence", "semantic"} => kind = label
            /\ label = "sliding_window"
                  => /\ overlap > 0
                     /\ \A other \in {"fixed", "sentence", "semantic"} :
                           <<kind, chunk_size, overlap>> # ServedBy(other)
====
